---- MODULE Spec2Model ----
(***************************************************************************)
(* The from-scratch ridge-regression estimator of                          *)
(* ridge_regression_scratch.ipynb (class RidgeRegression), modelled as a   *)
(* state machine over one estimator instance; fit calls running in two     *)
(* threads; and the training loop train(...) of the CNN notebook.          *)
(*                                                                         *)
(* Numbers are exact rationals <<numerator, denominator>> in lowest terms  *)
(* with a positive denominator: the model follows the arithmetic the code  *)
(* asks numpy for, without floating-point rounding.  Python's None is the  *)
(* empty tuple.  A matrix is a sequence of rows, a vector a sequence.      *)
(* Exceptions keep their Python class names.                               *)
(***************************************************************************)
EXTENDS Integers, Sequences, FiniteSets, TLC

VARIABLES
    alpha,        \* self.alpha
    coef_,        \* self.coef_        (None before the first successful fit)
    intercept_,   \* self.intercept_   (None before the first successful fit)
    X, y,         \* the caller's arrays, passed by reference to fit/predict/score
    call,         \* the last call on the estimator: method, arguments' shape, outcome
    fitted_on,    \* column counts of the X last passed to fit, and last fitted on
    threads,      \* fit calls running in threads: their positions, arrays and local w
    trainer       \* a call of train(...): its position, locals and the model's weights

vars == <<alpha, coef_, intercept_, X, y, call, fitted_on, threads, trainer>>

-----------------------------------------------------------------------------
(* Bounds of the explored inputs. *)

MaxRows == 2    \* design matrices and targets have 1..MaxRows rows
MaxCols == 2    \* and 1..MaxCols columns
MaxAlpha == 1   \* regularization strengths lie in -1..MaxAlpha
MaxEpochs == 3  \* train runs 0..MaxEpochs epochs
MaxVal == 2     \* on a validation set of 0..MaxVal samples

-----------------------------------------------------------------------------
(* Exact rational arithmetic. *)

None == <<>>

Abs(x) == IF x < 0 THEN -x ELSE x

RECURSIVE Gcd(_, _)
Gcd(a, b) == IF b = 0 THEN a ELSE Gcd(b, a % b)

\* n/d in lowest terms, d # 0
Rat(n, d) ==
    LET g == Gcd(Abs(n), Abs(d))
        s == IF d < 0 THEN -1 ELSE 1
    IN  <<(s * n) \div g, (s * d) \div g>>

FromInt(n) == <<n, 1>>
RAdd(a, b) == Rat(a[1] * b[2] + b[1] * a[2], a[2] * b[2])
RSub(a, b) == Rat(a[1] * b[2] - b[1] * a[2], a[2] * b[2])
RMul(a, b) == Rat(a[1] * b[1], a[2] * b[2])
RDiv(a, b) == Rat(a[1] * b[2], a[2] * b[1])
RLeq(a, b) == a[1] * b[2] <= b[1] * a[2]

RECURSIVE RSum(_)
RSum(s) == IF s = <<>> THEN FromInt(0) ELSE RAdd(Head(s), RSum(Tail(s)))

RECURSIVE ISum(_)
ISum(s) == IF s = <<>> THEN 0 ELSE Head(s) + ISum(Tail(s))

-----------------------------------------------------------------------------
(* Dense linear algebra, as numpy computes it on the shapes the code uses. *)

\* a sequence given by a function on 1..n, built once
Vector(f) == f \o <<>>

Rows(M) == Len(M)
Cols(M) == Len(M[1])

\* X.copy(): a new array holding the same values
copy(M) == Vector([i \in 1..Rows(M) |-> Vector([j \in 1..Cols(M) |-> M[i][j]])])

\* np.ones((n, 1))
ones(n) == Vector([i \in 1..n |-> <<1>>])

\* np.hstack([L, R]) of two matrices with the same number of rows
hstack(L, R) == Vector([i \in 1..Rows(L) |-> L[i] \o R[i]])

\* np.identity(k)
identity(k) == Vector([i \in 1..k |-> Vector([j \in 1..k |-> IF i = j THEN 1 ELSE 0])])

\* M.T
T(M) == Vector([j \in 1..Cols(M) |-> Vector([i \in 1..Rows(M) |-> M[i][j]])])

\* A @ B on integer matrices of matching inner dimension
MatMul(A, B) ==
    Vector([i \in 1..Rows(A) |-> Vector([j \in 1..Cols(B) |->
        ISum(Vector([k \in 1..Cols(A) |-> A[i][k] * B[k][j]]))])])

MatAdd(A, B) ==
    Vector([i \in 1..Rows(A) |-> Vector([j \in 1..Cols(A) |-> A[i][j] + B[i][j]])])

Scale(c, M) ==
    Vector([i \in 1..Rows(M) |-> Vector([j \in 1..Cols(M) |-> c * M[i][j]])])

\* M without row r and column c
Minor(M, r, c) ==
    LET k == Len(M)
    IN  Vector([i \in 1..(k - 1) |-> Vector([j \in 1..(k - 1) |->
            M[IF i < r THEN i ELSE i + 1][IF j < c THEN j ELSE j + 1]])])

Sign(i) == IF i % 2 = 0 THEN 1 ELSE -1

\* determinant of a square integer matrix, by expansion along the first row
RECURSIVE Det(_)
Det(M) ==
    IF Len(M) = 0 THEN 1
    ELSE IF Len(M) = 1 THEN M[1][1]
    ELSE ISum(Vector([j \in 1..Len(M) |->
             Sign(1 + j) * M[1][j] * Det(Minor(M, 1, j))]))

\* inv with the cofactors' signs forgotten
inv_unsigned(A) ==
    LET d == Det(A)
    IN  Vector([i \in 1..Len(A) |-> Vector([j \in 1..Len(A) |->
            Rat(Det(Minor(A, j, i)), d)])])

\* np.linalg.inv(A) for an invertible A: the adjugate over the determinant
inv(A) ==
    LET d == Det(A)
    IN  Vector([i \in 1..Len(A) |-> Vector([j \in 1..Len(A) |->
            Rat(Sign(i + j) * Det(Minor(A, j, i)), d)])])

\* (rational matrix) @ (integer matrix)
RMatMul(A, B) ==
    Vector([i \in 1..Rows(A) |-> Vector([j \in 1..Cols(B) |->
        RSum(Vector([k \in 1..Cols(A) |-> RMul(A[i][k], FromInt(B[k][j]))]))])])

\* (rational matrix) @ (integer vector)
RMatVec(A, v) ==
    Vector([i \in 1..Rows(A) |->
        RSum(Vector([k \in 1..Cols(A) |-> RMul(A[i][k], FromInt(v[k]))]))])

\* w[0:] in place of w[1:]
Rest_whole(w) == w

\* w[1:]
Rest(w) == Vector([i \in 1..(Len(w) - 1) |-> w[i + 1]])

-----------------------------------------------------------------------------
(* class RidgeRegression.  An estimator object is the record `self`; each   *)
(* method is an operator from the object and the arguments to the outcome  *)
(* of the call: the object and the caller's arrays as the call leaves      *)
(* them, the exception raised ("none" on a normal return) and the value    *)
(* returned.                                                               *)

Outcome(self, X0, y0, exc, ret) ==
    [self |-> self, X |-> X0, y |-> y0, exc |-> exc, ret |-> ret]

\* def __init__(self, alpha=1.0)
init(a) == [alpha |-> a, coef_ |-> None, intercept_ |-> None]

\* the penalty subtracted instead of added
PenaltyMatrix_negated(a, k) == Scale(-a, [identity(k) EXCEPT ![1][1] = 0])

\* I[-1, -1] = 0 instead of I[0, 0] = 0: the last coefficient is spared
PenaltyMatrix_last(a, k) == Scale(a, [identity(k) EXCEPT ![k][k] = 0])

\* the penalty without I[0, 0] = 0: the intercept is penalized too
PenaltyMatrix_full(a, k) == Scale(a, identity(k))

\* I = np.identity(k); I[0, 0] = 0; self.alpha * I
PenaltyMatrix(a, k) == Scale(a, [identity(k) EXCEPT ![1][1] = 0])

\* X_.T @ X_ + self.alpha * I
NormalMatrix(a, X_) ==
    MatAdd(MatMul(T(X_), X_), PenaltyMatrix(a, Cols(X_)))

\* a column of zeros prepended instead of a column of ones
Augment_zeros(X0) == hstack(Vector([i \in 1..Rows(X0) |-> <<0>>]), copy(X0))

\* the column of ones appended after the features instead of before them
Augment_ones_last(X0) == hstack(copy(X0), ones(Rows(X0)))

\* X_ = X.copy(); X_ = np.hstack([np.ones((X_.shape[0], 1)), X_])
Augment(X0) == hstack(ones(Rows(X0)), copy(X0))

\* np.linalg.inv(A) @ X_.T @ y, for an invertible A and a y with one entry
\* per row of X_
SolveWeights(A, X_, y0) == RMatVec(RMatMul(inv(A), T(X_)), y0)

\* fit clearing the fitted parameters before it solves
fit_resetting(self, X0, y0) ==
    LET X_ == Augment(X0)
        A == NormalMatrix(self.alpha, X_)
        cleared == [self EXCEPT !.intercept_ = None, !.coef_ = None]
    IN  IF Det(A) = 0
        THEN Outcome(cleared, X0, y0, "LinAlgError", None)
        ELSE IF Rows(X0) # Len(y0)
        THEN Outcome(cleared, X0, y0, "ValueError", None)
        ELSE LET w == SolveWeights(A, X_, y0)
             IN  Outcome([self EXCEPT !.intercept_ = w[1], !.coef_ = Rest(w)],
                         X0, y0, "none", None)

\* fit adding the column of ones to the caller's array, without the copy
fit_in_place(self, X0, y0) ==
    LET X_ == Augment(X0)
        A == NormalMatrix(self.alpha, X_)
    IN  IF Det(A) = 0
        THEN Outcome(self, X_, y0, "LinAlgError", None)
        ELSE IF Rows(X0) # Len(y0)
        THEN Outcome(self, X_, y0, "ValueError", None)
        ELSE LET w == SolveWeights(A, X_, y0)
             IN  Outcome([self EXCEPT !.intercept_ = w[1], !.coef_ = Rest(w)],
                         X_, y0, "none", None)

\* fit cutting X and y to their common rows instead of raising ValueError
fit_truncating(self, X0, y0) ==
    LET n == IF Rows(X0) < Len(y0) THEN Rows(X0) ELSE Len(y0)
        X_ == Augment(SubSeq(X0, 1, n))
        A == NormalMatrix(self.alpha, X_)
    IN  IF Det(A) = 0
        THEN Outcome(self, X0, y0, "LinAlgError", None)
        ELSE LET w == SolveWeights(A, X_, SubSeq(y0, 1, n))
             IN  Outcome([self EXCEPT !.intercept_ = w[1], !.coef_ = Rest(w)],
                         X0, y0, "none", None)

\* fit falling back to the zero weight vector when the matrix is singular
fit_fallback(self, X0, y0) ==
    LET X_ == Augment(X0)
        A == NormalMatrix(self.alpha, X_)
    IN  IF Rows(X0) # Len(y0)
        THEN Outcome(self, X0, y0, "ValueError", None)
        ELSE LET w == IF Det(A) = 0
                      THEN Vector([c \in 1..Cols(X_) |-> FromInt(0)])
                      ELSE SolveWeights(A, X_, y0)
             IN  Outcome([self EXCEPT !.intercept_ = w[1], !.coef_ = Rest(w)],
                         X0, y0, "none", None)

\* fit without the assignment to self.coef_
fit_intercept_only(self, X0, y0) ==
    LET X_ == Augment(X0)
        A == NormalMatrix(self.alpha, X_)
    IN  IF Det(A) = 0
        THEN Outcome(self, X0, y0, "LinAlgError", None)
        ELSE IF Rows(X0) # Len(y0)
        THEN Outcome(self, X0, y0, "ValueError", None)
        ELSE LET w == SolveWeights(A, X_, y0)
             IN  Outcome([self EXCEPT !.intercept_ = w[1]], X0, y0, "none", None)

\* fit keeping the parameters of an estimator that is already fitted
fit_cached(self, X0, y0) ==
    LET X_ == Augment(X0)
        A == NormalMatrix(self.alpha, X_)
    IN  IF Det(A) = 0
        THEN Outcome(self, X0, y0, "LinAlgError", None)
        ELSE IF Rows(X0) # Len(y0)
        THEN Outcome(self, X0, y0, "ValueError", None)
        ELSE IF self.coef_ # None
        THEN Outcome(self, X0, y0, "none", None)
        ELSE LET w == SolveWeights(A, X_, y0)
             IN  Outcome([self EXCEPT !.intercept_ = w[1], !.coef_ = Rest(w)],
                         X0, y0, "none", None)

\* def fit(self, X, y); it has no return statement and returns None.
\* In w = np.linalg.inv(X_.T @ X_ + self.alpha * I) @ X_.T @ y the inverse is
\* evaluated first and raises LinAlgError on a singular matrix; the product
\* with y comes last and raises ValueError when y has not one entry per row
\* of X.  Both happen before the two assignments to self.
fit(self, X0, y0) ==
    LET X_ == Augment(X0)
        A == NormalMatrix(self.alpha, X_)
    IN  IF Det(A) = 0
        THEN Outcome(self, X0, y0, "LinAlgError", None)
        ELSE IF Rows(X0) # Len(y0)
        THEN Outcome(self, X0, y0, "ValueError", None)
        ELSE LET w == SolveWeights(A, X_, y0)
             IN  Outcome([self EXCEPT !.intercept_ = w[1], !.coef_ = Rest(w)],
                         X0, y0, "none", None)

\* the intercept added to the first prediction only
Predictions_first_only(self, X0) ==
    Vector([i \in 1..Rows(X0) |->
        RAdd(RSum(Vector([j \in 1..Cols(X0) |->
                 RMul(FromInt(X0[i][j]), self.coef_[j])])),
             IF i = 1 THEN self.intercept_ ELSE FromInt(0))])

\* X.dot(self.coef_) + self.intercept_ for a fitted estimator and an X with
\* as many columns as there are coefficients
Predictions(self, X0) ==
    Vector([i \in 1..Rows(X0) |->
        RAdd(RSum(Vector([j \in 1..Cols(X0) |->
                 RMul(FromInt(X0[i][j]), self.coef_[j])])),
             self.intercept_)])

\* the shapes compared before the operands are used
Linear_shape_first(self, X0) ==
    IF Cols(X0) # Len(self.coef_) THEN [exc |-> "ValueError", val |-> None]
    ELSE IF self.coef_ = None THEN [exc |-> "TypeError", val |-> None]
    ELSE [exc |-> "none", val |-> Predictions(self, X0)]

\* the product taken over the columns X and coef_ share
Linear_lenient(self, X0) ==
    IF self.coef_ = None THEN [exc |-> "TypeError", val |-> None]
    ELSE [exc |-> "none",
          val |-> Vector([i \in 1..Rows(X0) |->
              RAdd(RSum(Vector([j \in 1..(IF Cols(X0) < Len(self.coef_)
                                          THEN Cols(X0) ELSE Len(self.coef_)) |->
                       RMul(FromInt(X0[i][j]), self.coef_[j])])),
                   self.intercept_)])]

\* X.dot(self.coef_) + self.intercept_: TypeError while coef_ is None,
\* ValueError when the shapes are not aligned
Linear(self, X0) ==
    IF self.coef_ = None THEN [exc |-> "TypeError", val |-> None]
    ELSE IF Cols(X0) # Len(self.coef_) THEN [exc |-> "ValueError", val |-> None]
    ELSE [exc |-> "none", val |-> Predictions(self, X0)]

\* predict assigning to self.intercept_ after computing
predict_assigning(self, X0, y0) ==
    LET p == Linear(self, X0)
    IN  Outcome(IF p.exc = "none" THEN [self EXCEPT !.intercept_ = FromInt(0)]
                ELSE self,
                X0, y0, p.exc, p.val)

\* def predict(self, X)
predict(self, X0, y0) ==
    LET p == Linear(self, X0)
    IN  Outcome(self, X0, y0, p.exc, p.val)

\* sklearn.metrics.r2_score(y_true, y_pred) for two vectors of one length n:
\* nan (with a warning) below two samples; 1 - SS_res / SS_tot when SS_tot # 0;
\* for a constant y_true 1.0 if the predictions are exact and 0.0 otherwise.
NaN == <<0, 0>>

\* r2_score dividing by a zero SS_tot: nan for a constant y_true
r2_score_undefined(y_true, y_pred) ==
    LET n == Len(y_true)
        mean == RDiv(FromInt(ISum(y_true)), FromInt(n))
        res == RSum(Vector([i \in 1..n |->
                  LET d == RSub(FromInt(y_true[i]), y_pred[i]) IN RMul(d, d)]))
        tot == RSum(Vector([i \in 1..n |->
                  LET d == RSub(FromInt(y_true[i]), mean) IN RMul(d, d)]))
    IN  IF n < 2 \/ tot = FromInt(0) THEN NaN
        ELSE RSub(FromInt(1), RDiv(res, tot))

\* sklearn.metrics.r2_score(y_true, y_pred) with its default arguments
r2_score(y_true, y_pred) ==
    LET n == Len(y_true)
        mean == RDiv(FromInt(ISum(y_true)), FromInt(n))
        res == RSum(Vector([i \in 1..n |->
                  LET d == RSub(FromInt(y_true[i]), y_pred[i]) IN RMul(d, d)]))
        tot == RSum(Vector([i \in 1..n |->
                  LET d == RSub(FromInt(y_true[i]), mean) IN RMul(d, d)]))
    IN  IF n < 2 THEN NaN
        ELSE IF tot # FromInt(0) THEN RSub(FromInt(1), RDiv(res, tot))
        ELSE IF res = FromInt(0) THEN FromInt(1)
        ELSE FromInt(0)

\* score with the arguments of r2_score exchanged
score_swapped(self, X0, y0) ==
    LET p == Linear(self, X0)
        n == Len(y0)
        mean == RDiv(RSum(p.val), FromInt(n))
        res == RSum(Vector([i \in 1..n |->
                  LET d == RSub(FromInt(y0[i]), p.val[i]) IN RMul(d, d)]))
        tot == RSum(Vector([i \in 1..n |->
                  LET d == RSub(p.val[i], mean) IN RMul(d, d)]))
    IN  IF p.exc # "none" THEN Outcome(self, X0, y0, p.exc, None)
        ELSE IF Len(y0) # Len(p.val) THEN Outcome(self, X0, y0, "ValueError", None)
        ELSE Outcome(self, X0, y0, "none",
                     IF n < 2 THEN NaN
                     ELSE IF tot # FromInt(0) THEN RSub(FromInt(1), RDiv(res, tot))
                     ELSE IF res = FromInt(0) THEN FromInt(1)
                     ELSE FromInt(0))

\* def score(self, X, y)
score(self, X0, y0) ==
    LET p == Linear(self, X0)
    IN  IF p.exc # "none" THEN Outcome(self, X0, y0, p.exc, None)
        ELSE IF Len(y0) # Len(p.val) THEN Outcome(self, X0, y0, "ValueError", None)
        ELSE Outcome(self, X0, y0, "none", r2_score(y0, p.val))

\* get_params reporting the magnitude of alpha
get_params_magnitude(self, X0, y0) ==
    Outcome(self, X0, y0, "none", [alpha |-> Abs(self.alpha)])

\* def get_params(self, deep=True)
get_params(self, X0, y0) ==
    Outcome(self, X0, y0, "none", [alpha |-> self.alpha])

\* the estimator object itself, as a returned value
SelfRef == [ref |-> "self"]

\* set_params with `return self` inside the loop: None for an empty mapping
set_params_return_in_loop(self, X0, y0, params) ==
    Outcome(IF "alpha" \in DOMAIN params
            THEN [self EXCEPT !.alpha = params["alpha"]] ELSE self,
            X0, y0, "none", IF DOMAIN params = {} THEN None ELSE SelfRef)

\* set_params resetting the coefficients to zeros when it sets alpha
set_params_zeroing(self, X0, y0, params) ==
    Outcome(IF "alpha" \in DOMAIN params
            THEN [self EXCEPT !.alpha = params["alpha"],
                              !.coef_ = Vector([j \in 1..Len(self.coef_) |->
                                                   FromInt(0)])]
            ELSE self,
            X0, y0, "none", SelfRef)

\* set_params comparing the key with a name no caller passes
set_params_wrong_key(self, X0, y0, params) ==
    Outcome(self, X0, y0, "none", SelfRef)

\* set_params discarding the fitted parameters when it sets alpha
set_params_clearing(self, X0, y0, params) ==
    Outcome(IF "alpha" \in DOMAIN params
            THEN [alpha |-> params["alpha"], coef_ |-> None, intercept_ |-> None]
            ELSE self,
            X0, y0, "none", SelfRef)

\* def set_params(self, **params): params maps keyword names to values
set_params(self, X0, y0, params) ==
    Outcome(IF "alpha" \in DOMAIN params
            THEN [self EXCEPT !.alpha = params["alpha"]] ELSE self,
            X0, y0, "none", SelfRef)

-----------------------------------------------------------------------------
(* The inputs. *)

\* values alpha takes: the constructor and set_params accept any number
AlphaVals == (-1)..MaxAlpha

\* keyword arguments of set_params: alpha with any value, a name the
\* estimator does not have, both or neither
Keys == {"alpha", "fit_intercept"}
ParamMaps ==
    UNION {{m \in [K -> AlphaVals] : "fit_intercept" \in K => m["fit_intercept"] = 0} :
           K \in SUBSET Keys}

Shapes == (1..MaxRows) \X (1..MaxCols)

Eye(n, p) == Vector([i \in 1..n |-> Vector([j \in 1..p |-> IF i = j THEN 1 ELSE 0])])

\* the design matrices and targets of the call sequences: one indicator
\* matrix per shape and one target vector per length
SeqX == {Eye(s[1], s[2]) : s \in Shapes}
SeqY == {Vector([i \in 1..m |-> i % 2]) : m \in 1..MaxRows}

\* every 0/1 design matrix and every 0/1 target vector within the bounds
AllX == UNION {[1..s[1] -> [1..s[2] -> {0, 1}]] : s \in Shapes}
AllY == UNION {[1..m -> {0, 1}] : m \in 1..MaxRows}

-----------------------------------------------------------------------------
(* The state machine: one estimator and the caller's arrays. *)

Self == [alpha |-> alpha, coef_ |-> coef_, intercept_ |-> intercept_]

Called(op, args, o) == [op |-> op, args |-> args, exc |-> o.exc, ret |-> o.ret]

\* the state a call leaves
Apply(op, args, o) ==
    /\ alpha' = o.self.alpha
    /\ coef_' = o.self.coef_
    /\ intercept_' = o.self.intercept_
    /\ X' = o.X
    /\ y' = o.y
    /\ call' = Called(op, args, o)
    /\ UNCHANGED <<threads, trainer>>

\* no fit call is running in a thread; train has not been called
NoThreads == <<>>
NoTrainer == <<>>

\* model = RidgeRegression(alpha=a), with the caller's arrays drawn from Xs, Ys
Construct(Xs, Ys) ==
    /\ \E a \in AlphaVals :
          /\ alpha = init(a).alpha
          /\ coef_ = init(a).coef_
          /\ intercept_ = init(a).intercept_
    /\ X \in Xs
    /\ y \in Ys
    /\ call = [op |-> "__init__", args |-> <<>>, exc |-> "none", ret |-> None]
    /\ fitted_on = [passed |-> 0, solved |-> 0]
    /\ threads = NoThreads
    /\ trainer = NoTrainer

\* the caller rebinds its arrays
Load(Xs, Ys) ==
    /\ \E X1 \in Xs, y1 \in Ys :
          /\ <<X1, y1>> # <<X, y>>
          /\ X' = X1
          /\ y' = y1
    /\ call' = [op |-> "load", args |-> <<>>, exc |-> "none", ret |-> None]
    /\ UNCHANGED <<alpha, coef_, intercept_, fitted_on, threads, trainer>>

\* model.fit(X, y)
Fit ==
    LET o == fit(Self, X, y)
    IN  /\ Apply("fit", <<>>, o)
        /\ fitted_on' = [passed |-> Cols(X),
                         solved |-> IF o.exc = "none" THEN Cols(X)
                                    ELSE fitted_on.solved]

\* model.predict(X)
Predict ==
    /\ Apply("predict", <<>>, predict(Self, X, y))
    /\ UNCHANGED fitted_on

\* model.score(X, y)
Score ==
    /\ Apply("score", <<>>, score(Self, X, y))
    /\ UNCHANGED fitted_on

\* model.get_params()
GetParams ==
    /\ Apply("get_params", <<>>, get_params(Self, X, y))
    /\ UNCHANGED fitted_on

\* model.set_params(**params)
SetParams ==
    /\ \E params \in ParamMaps : Apply("set_params", params, set_params(Self, X, y, params))
    /\ UNCHANGED fitted_on

\* any sequence of calls on one estimator
Init == Construct(SeqX, SeqY)

Next ==
    \/ Load(SeqX, SeqY)
    \/ Fit
    \/ Predict
    \/ Score
    \/ GetParams
    \/ SetParams

Spec == Init /\ [][Next]_vars

\* one fit of a freshly constructed estimator, on every input within the bounds
InitFit == Construct(AllX, AllY)

FitFresh == call.op = "__init__" /\ Fit

SpecFit == InitFit /\ [][FitFresh]_vars

\* a new estimator fitted once, then asked to predict and to score on the
\* arrays it was fitted on
PredictFitted == call.op = "fit" /\ Predict
ScoreFitted == call.op = "fit" /\ Score

NextUse ==
    \/ FitFresh
    \/ PredictFitted
    \/ ScoreFitted

SpecUse == InitFit /\ [][NextUse]_vars

\* the worked example of ordinary least squares, with the other inputs
ExampleX == <<<<1>>, <<2>>, <<3>>>>
ExampleY == <<2, 4, 6>>

InitExample == Construct(AllX \cup {ExampleX}, AllY \cup {ExampleY})

SpecExample == InitExample /\ [][FitFresh]_vars

\* an estimator fitted and scored on arrays the caller rebinds in between,
\* targets that are all equal included
HeldOutY == SeqY \cup {Vector([i \in 1..m |-> 1]) : m \in 2..MaxRows}

InitHeldOut == Construct(SeqX, HeldOutY)

NextHeldOut ==
    \/ Load(SeqX, HeldOutY)
    \/ Fit
    \/ Score

SpecHeldOut == InitHeldOut /\ [][NextHeldOut]_vars

-----------------------------------------------------------------------------
(* Two fit calls in two threads.  Thread 1 calls fit on the estimator of    *)
(* alpha, coef_, intercept_; thread 2 calls it on the same estimator or on  *)
(* a second one, threads.other.  A thread can be preempted between any two  *)
(* statements of fit: after w is computed, and between the two assignments. *)

Threads == 1..2

\* the arrays a thread passes to fit
ThreadData == SeqX \X SeqY

\* fit storing into the first estimator, whichever it was called on
Target_first(t) == 1

\* the estimator thread t calls fit on (self): 1 is the estimator of
\* alpha, coef_, intercept_, 2 is threads.other
Target(t) == threads.target[t]

\* self as thread t sees it
Instance(t) == IF Target(t) = 1 THEN Self ELSE threads.other

\* two estimators constructed with the same alpha; thread 2 is given the
\* first or the second
InitThreads ==
    /\ \E a \in AlphaVals :
          /\ alpha = init(a).alpha
          /\ coef_ = init(a).coef_
          /\ intercept_ = init(a).intercept_
          /\ \E k \in Threads, d1 \in ThreadData, d2 \in ThreadData :
                /\ threads = [target |-> <<1, k>>,
                              pc |-> <<"call", "call">>,
                              X |-> <<d1[1], d2[1]>>,
                              y |-> <<d1[2], d2[2]>>,
                              w |-> <<None, None>>,
                              other |-> init(a)]
                /\ X = d1[1]
                /\ y = d1[2]
    /\ call = [op |-> "__init__", args |-> <<>>, exc |-> "none", ret |-> None]
    /\ fitted_on = [passed |-> 0, solved |-> 0]
    /\ trainer = NoTrainer

\* thread t runs fit up to w = ...: the solve raises, or w is a local
SolveIn(t) ==
    /\ threads.pc[t] = "call"
    /\ LET o == fit(Instance(t), threads.X[t], threads.y[t])
       IN  threads' =
               IF o.exc = "none"
               THEN [threads EXCEPT !.pc[t] = "solved",
                                    !.w[t] = <<o.self.intercept_>> \o o.self.coef_]
               ELSE [threads EXCEPT !.pc[t] = "raised"]
    /\ UNCHANGED <<alpha, coef_, intercept_, X, y, call, fitted_on, trainer>>

\* thread t runs self.intercept_ = w[0]
WriteIntercept(t) ==
    /\ threads.pc[t] = "solved"
    /\ IF Target(t) = 1
       THEN /\ intercept_' = threads.w[t][1]
            /\ threads' = [threads EXCEPT !.pc[t] = "intercept"]
       ELSE /\ intercept_' = intercept_
            /\ threads' = [threads EXCEPT !.pc[t] = "intercept",
                                          !.other.intercept_ = threads.w[t][1]]
    /\ UNCHANGED <<alpha, coef_, X, y, call, fitted_on, trainer>>

\* thread t runs self.coef_ = w[1:] and returns
WriteCoef(t) ==
    /\ threads.pc[t] = "intercept"
    /\ IF Target(t) = 1
       THEN /\ coef_' = Rest(threads.w[t])
            /\ threads' = [threads EXCEPT !.pc[t] = "done"]
       ELSE /\ coef_' = coef_
            /\ threads' = [threads EXCEPT !.pc[t] = "done",
                                          !.other.coef_ = Rest(threads.w[t])]
    /\ UNCHANGED <<alpha, intercept_, X, y, call, fitted_on, trainer>>

NextThreads ==
    \E t \in Threads :
        \/ SolveIn(t)
        \/ WriteIntercept(t)
        \/ WriteCoef(t)

SpecThreads == InitThreads /\ [][NextThreads]_vars

-----------------------------------------------------------------------------
(* train(model, ..., num_epochs) of the CNN notebook.  The model's weights  *)
(* are named by the number of epochs of optimizer steps that produced       *)
(* them: 0 for the weights on entry, e for those at the end of epoch e.     *)
(* A state_dict copied by copy.deepcopy is that number.                     *)

\* test_accuracy: accuracy = 100 * correct / total
test_accuracy(correct, total) == Rat(100 * correct, total)

\* val_acc >= best_acc
Improves_or_ties(val_acc, best_acc) == RLeq(best_acc, val_acc)

\* val_acc > best_acc
Improves(val_acc, best_acc) == ~RLeq(val_acc, best_acc)

\* train is entered: best_model_wts = copy.deepcopy(model.state_dict()),
\* best_acc = 0.0; val_loader holds total samples
InitTrain ==
    /\ alpha = init(1).alpha
    /\ coef_ = init(1).coef_
    /\ intercept_ = init(1).intercept_
    /\ X = Eye(1, 1)
    /\ y = <<1>>
    /\ call = [op |-> "__init__", args |-> <<>>, exc |-> "none", ret |-> None]
    /\ fitted_on = [passed |-> 0, solved |-> 0]
    /\ threads = NoThreads
    /\ \E n \in 0..MaxEpochs, total \in 0..MaxVal :
          trainer = [pc |-> "loop",
                     num_epochs |-> n,
                     total |-> total,
                     epoch |-> 0,
                     model |-> 0,
                     best_model_wts |-> 0,
                     best_acc |-> FromInt(0),
                     val_accs |-> <<>>]

\* one pass of the body of `for epoch in range(num_epochs)`: the optimizer
\* steps give new weights, test_accuracy counts correct predictions on the
\* validation set, and a better accuracy is recorded with a copy of the weights
Epoch ==
    /\ trainer.pc = "loop"
    /\ trainer.epoch < trainer.num_epochs
    /\ trainer.total > 0
    /\ \E correct \in 0..trainer.total :
          LET trained == trainer.epoch + 1
              val_acc == test_accuracy(correct, trainer.total)
              better == Improves(val_acc, trainer.best_acc)
          IN  trainer' =
                  [trainer EXCEPT
                      !.epoch = trained,
                      !.model = trained,
                      !.val_accs = Append(@, val_acc),
                      !.best_acc = IF better THEN val_acc ELSE @,
                      !.best_model_wts = IF better THEN trained ELSE @]
    /\ UNCHANGED <<alpha, coef_, intercept_, X, y, call, fitted_on, threads>>

\* the same pass on an empty validation set: 100 * correct / total divides
\* by zero and train is left by the exception, after the optimizer steps
EpochRaises ==
    /\ trainer.pc = "loop"
    /\ trainer.epoch < trainer.num_epochs
    /\ trainer.total = 0
    /\ trainer' = [trainer EXCEPT !.pc = "ZeroDivisionError",
                                  !.model = trainer.epoch + 1]
    /\ UNCHANGED <<alpha, coef_, intercept_, X, y, call, fitted_on, threads>>

\* after the loop: model.load_state_dict(best_model_wts); return model
Return ==
    /\ trainer.pc = "loop"
    /\ trainer.epoch = trainer.num_epochs
    /\ trainer' = [trainer EXCEPT !.pc = "returned",
                                  !.model = trainer.best_model_wts]
    /\ UNCHANGED <<alpha, coef_, intercept_, X, y, call, fitted_on, threads>>

NextTrain ==
    \/ Epoch
    \/ EpochRaises
    \/ Return

SpecTrain == InitTrain /\ [][NextTrain]_vars

-----------------------------------------------------------------------------
(* The error kinds of the specification, as the exceptions the code raises. *)

\* an operand is None: the estimator holds no fitted parameters
NotFitted == "TypeError"
\* numpy finds two shapes not aligned
DimensionMismatch == "ValueError"
\* np.linalg.inv finds the matrix singular
SingularMatrix == "LinAlgError"

Fitted == coef_ # None /\ intercept_ # None
Unfitted == coef_ = None /\ intercept_ = None

-----------------------------------------------------------------------------
(* The penalized normal equations, written out entry by entry. *)

\* entry (i, c) of [1 | M]
AugEntry(M, i, c) == IF c = 1 THEN 1 ELSE M[i][c - 1]

\* entry (r, c) of [1 | M]^T [1 | M]
Gram(M, r, c) ==
    ISum(Vector([i \in 1..Len(M) |-> AugEntry(M, i, r) * AugEntry(M, i, c)]))

\* entry (r, c) of the penalty: a on the diagonal, except 0 for the intercept
Penalty(a, r, c) == IF r = c /\ r > 1 THEN a ELSE 0

\* entry r of [1 | M]^T v
Moment(M, v, r) == ISum(Vector([i \in 1..Len(M) |-> AugEntry(M, i, r) * v[i]]))

\* ([1 | M]^T [1 | M] + P) w = [1 | M]^T v
NormalEquations(a, w, M, v) ==
    /\ Len(w) = Cols(M) + 1
    /\ \A r \in 1..(Cols(M) + 1) :
          RSum(Vector([c \in 1..(Cols(M) + 1) |->
              RMul(FromInt(Gram(M, r, c) + Penalty(a, r, c)), w[c])]))
          = FromInt(Moment(M, v, r))

FitSucceeded == call.op = "fit" /\ call.exc = "none"
FitFailed == call.op = "fit" /\ call.exc # "none"

\* C1: after a successful fit(X, y) the weight vector w = [intercept_, coef_...]
\* solves the penalized normal equations (Xa^T Xa + P) w = Xa^T y, Xa being X
\* with a column of ones prepended and P the penalty alpha * I with P[0][0] = 0.
C1_NormalEquations ==
    FitSucceeded => NormalEquations(alpha, <<intercept_>> \o coef_, X, y)

C1_Witness ==
    /\ FitSucceeded
    /\ alpha = 1
    /\ Rows(X) = 2
    /\ Cols(X) = 2
    /\ \E j \in 1..2 : coef_[j] # FromInt(0)

\* C2: the matrix fit adds to Xa^T Xa is (p+1) x (p+1), alpha on the diagonal
\* and 0 elsewhere, except that its entry for the intercept is 0: the
\* intercept is never penalized, every coefficient is penalized by alpha.
C2_PenaltySparesIntercept ==
    call.op = "fit" =>
        LET k == Cols(X) + 1
            A == NormalMatrix(alpha, Augment(X))
        IN  /\ Len(A) = k
            /\ \A r \in 1..k : Len(A[r]) = k
            /\ A[1][1] - Gram(X, 1, 1) = 0
            /\ \A r \in 2..k : A[r][r] - Gram(X, r, r) = alpha
            /\ \A r \in 1..k : \A c \in 1..k :
                  r # c => A[r][c] - Gram(X, r, c) = 0

C2_Witness == call.op = "fit" /\ alpha = 1 /\ Cols(X) = 2 /\ Rows(X) = 1

\* C3: fit is all-or-nothing.  A fit call that fails (ValueError for a
\* dimension mismatch, LinAlgError for a singular matrix) leaves intercept_ and
\* coef_ as they were before the call, None or the previous fit's values; a
\* fit call that succeeds sets both, to the solution for the X and y passed.
C3_FitAllOrNothing ==
    [][call'.op = "fit" =>
          IF call'.exc # "none"
          THEN /\ call'.exc \in {DimensionMismatch, SingularMatrix}
               /\ intercept_' = intercept_
               /\ coef_' = coef_
          ELSE /\ intercept_' # None
               /\ coef_' # None
               /\ NormalEquations(alpha, <<intercept_'>> \o coef_', X, y)]_vars

C3_Witness ==
    /\ FitFailed
    /\ Fitted
    /\ fitted_on.passed # fitted_on.solved

\* C4: fit changes only intercept_ and coef_.  The caller's X and y hold the
\* same values after the call as before it and alpha is unchanged, whether fit
\* succeeds or fails.
C4_FitFrame ==
    [][call'.op = "fit" => X' = X /\ y' = y /\ alpha' = alpha]_vars

C4_Witness == FitSucceeded /\ Rows(X) = 2 /\ Cols(X) = 2 /\ alpha = 1

\* C5 as stated: whenever the estimator is fitted, the length of coef_ equals
\* the number of columns of the X most recently passed to fit.
C5_CoefLenIsLastPassed == Fitted => Len(coef_) = fitted_on.passed

\* C5 as amended: whenever the estimator is fitted, the length of coef_ equals
\* the number of columns of the X of the most recent successful fit; a fit
\* that fails leaves the length as it was.
C5_CoefLenIsLastSolved ==
    /\ Fitted => Len(coef_) = fitted_on.solved
    /\ FitSucceeded => Len(coef_) = Cols(X)

C5_Witness ==
    /\ Fitted
    /\ FitFailed
    /\ Len(coef_) = 1
    /\ Cols(X) = 2

\* C6: the estimator is Unfitted (intercept_ and coef_ both None) or Fitted
\* (both set) and nothing else; only fit changes which, and once Fitted no
\* fit, predict, score, get_params or set_params makes it Unfitted again.
C6_TwoStates ==
    /\ [](Unfitted \/ Fitted)
    /\ [][/\ Fitted => Fitted'
          /\ call'.op # "fit" => (Fitted' <=> Fitted)]_vars

C6_Witness == Fitted /\ call.op = "set_params" /\ "alpha" \in DOMAIN call.args

\* C7: predict and score on an estimator on which no fit has succeeded raise
\* the not-fitted error (TypeError, an operand being None), for every X and y.
C7_NotFittedGuard ==
    (call.op \in {"predict", "score"} /\ fitted_on.solved = 0) =>
        call.exc = NotFitted

C7_Witness ==
    /\ call.op = "score"
    /\ fitted_on.solved = 0
    /\ fitted_on.passed > 0
    /\ Rows(X) = Len(y)

\* C8 as stated: fit raises the dimension-mismatch error (ValueError) whenever
\* the number of rows of X differs from the length of y.
C8_MismatchIsValueError ==
    (call.op = "fit" /\ Rows(X) # Len(y)) => call.exc = DimensionMismatch

\* C8 as amended: fit fails whenever the number of rows of X differs from the
\* length of y: with the dimension-mismatch error (ValueError) when the
\* penalized matrix is invertible, and with the singular-matrix error
\* (LinAlgError), raised first, when it is not.
C8_MismatchFails ==
    (call.op = "fit" /\ Rows(X) # Len(y)) =>
        /\ call.exc \in {DimensionMismatch, SingularMatrix}
        /\ call.exc = SingularMatrix <=>
               Det([r \in 1..(Cols(X) + 1) |-> [c \in 1..(Cols(X) + 1) |->
                       Gram(X, r, c) + Penalty(alpha, r, c)]]) = 0
        /\ Unfitted

C8_Witness ==
    /\ call.op = "fit"
    /\ Rows(X) = 2
    /\ Len(y) = 1
    /\ call.exc = DimensionMismatch

\* C9: on a fitted estimator predict(X) raises the dimension-mismatch error
\* (ValueError) whenever X has not as many columns as coef_ has entries, and
\* the failed call leaves alpha, intercept_ and coef_ unchanged.
C9_PredictMismatch ==
    /\ []((call.op = "predict" /\ Fitted /\ Cols(X) # Len(coef_)) =>
              call.exc = DimensionMismatch)
    /\ [][(call'.op = "predict" /\ call'.exc # "none") =>
              UNCHANGED <<alpha, intercept_, coef_>>]_vars

C9_Witness ==
    /\ call.op = "predict"
    /\ Fitted
    /\ Len(coef_) = 2
    /\ Cols(X) = 1

\* C10: fit raises the singular-matrix error (LinAlgError) whenever the
\* penalized normal-equations matrix is not invertible, as it is for alpha = 0
\* and an X with fewer rows than columns plus one or with a constant column;
\* it then stores no solution, least-norm or other.
C10_SingularRaises ==
    call.op = "fit" =>
        LET k == Cols(X) + 1
            singular ==
                Det([r \in 1..k |-> [c \in 1..k |->
                    Gram(X, r, c) + Penalty(alpha, r, c)]]) = 0
            constant(j) == \A i \in 1..Rows(X) : X[i][j] = X[1][j]
        IN  /\ singular => (call.exc = SingularMatrix /\ Unfitted)
            /\ (alpha = 0 /\ Rows(X) < k) => call.exc = SingularMatrix
            /\ (alpha = 0 /\ \E j \in 1..Cols(X) : constant(j)) =>
                   call.exc = SingularMatrix
            /\ call.exc = SingularMatrix => singular

C10_Witness ==
    /\ call.op = "fit"
    /\ call.exc = SingularMatrix
    /\ alpha = 0
    /\ Rows(X) = 2
    /\ Cols(X) = 1
    /\ Len(y) = 2

\* the keys of a set_params call other than alpha
UnknownKeys == DOMAIN call.args \ {"alpha"}

\* C11: set_params called with any key other than alpha fails with an
\* unknown-parameter error; such a key is never silently ignored.
C11_UnknownKeyRejected ==
    (call.op = "set_params" /\ UnknownKeys # {}) => call.exc # "none"

\* C12: every successful fit(X, y) returns the estimator itself.
C12_FitReturnsSelf ==
    FitSucceeded => call.ret = SelfRef

\* C13: set_params accepts every argument mapping it is given, the empty one
\* included, and returns the estimator it was called on.
C13_SetParamsReturnsSelf ==
    call.op = "set_params" => (call.exc = "none" /\ call.ret = SelfRef)

C13_Witness ==
    /\ call.op = "set_params"
    /\ DOMAIN call.args = {}
    /\ call.ret = SelfRef
    /\ Fitted

\* C14: in any state, a get_params() that follows set_params(alpha=a) returns
\* {alpha: a}, and the stored alpha is a.
C14_RoundTrip ==
    [][(/\ call.op = "set_params"
        /\ "alpha" \in DOMAIN call.args
        /\ call'.op = "get_params")
       => (/\ call'.exc = "none"
           /\ DOMAIN call'.ret = {"alpha"}
           /\ call'.ret.alpha = call.args["alpha"]
           /\ alpha' = call.args["alpha"])]_vars

\* set_params(alpha=-1) has just returned on a fitted estimator constructed or
\* set earlier, and get_params can follow
C14_Witness ==
    /\ call.op = "set_params"
    /\ "alpha" \in DOMAIN call.args
    /\ call.args["alpha"] = -1
    /\ Fitted
    /\ get_params(Self, X, y).ret = [alpha |-> -1]

\* the parameters a new estimator with penalty a gets from fit(M, v)
FreshFit(a, M, v) == fit(init(a), M, v)

\* C15: a fit that follows set_params(alpha=a) uses a, whatever alpha was
\* before: it succeeds or fails as the fit of a new estimator constructed with
\* alpha=a on the same (X, y) does, and on success its parameters are those of
\* that estimator and solve the normal equations for the penalty a.
C15_FitUsesNewAlpha ==
    [][(/\ call.op = "set_params"
        /\ "alpha" \in DOMAIN call.args
        /\ call'.op = "fit")
       => LET a == call.args["alpha"]
              o == FreshFit(a, X, y)
          IN  /\ call'.exc = o.exc
              /\ coef_' = IF o.exc = "none" THEN o.self.coef_ ELSE coef_
              /\ intercept_' = IF o.exc = "none" THEN o.self.intercept_
                               ELSE intercept_
              /\ call'.exc = "none" =>
                     NormalEquations(a, <<intercept_'>> \o coef_', X, y)]_vars

\* set_params(alpha=0) has just returned on an estimator fitted before, and
\* the fit that follows succeeds with other parameters
C15_Witness ==
    /\ call.op = "set_params"
    /\ "alpha" \in DOMAIN call.args
    /\ call.args["alpha"] = 0
    /\ Fitted
    /\ LET o == fit(Self, X, y)
       IN  o.exc = "none" /\ o.self.coef_ # coef_

\* row . c, summed term by term from the last column back
RECURSIVE Dot(_, _, _)
Dot(row, c, j) ==
    IF j = 0 THEN FromInt(0)
    ELSE RAdd(Dot(row, c, j - 1), RMul(FromInt(row[j]), c[j]))

\* the value the fitted line takes on row i of X
RowValue(i) == RAdd(Dot(X[i], coef_, Len(coef_)), intercept_)

\* C16: on a fitted estimator, predict(X) with as many columns as coefficients
\* returns one value per row of X, the dot product of the row with the
\* coefficients plus the intercept.
C16_PredictIsAffine ==
    (call.op = "predict" /\ Fitted /\ Cols(X) = Len(coef_)) =>
        /\ call.exc = "none"
        /\ Len(call.ret) = Rows(X)
        /\ \A i \in 1..Rows(X) : call.ret[i] = RowValue(i)

C16_Witness ==
    /\ call.op = "predict"
    /\ call.exc = "none"
    /\ Rows(X) = 2
    /\ Cols(X) = 2
    /\ intercept_ # FromInt(0)
    /\ coef_[1] # FromInt(0)
    /\ call.ret[1] # call.ret[2]

\* C17: predict, score and get_params leave alpha, the intercept and the
\* coefficients as they were, whether the call succeeds or fails.
C17_ReadOnly ==
    [][call'.op \in {"predict", "score", "get_params"} =>
           UNCHANGED <<alpha, intercept_, coef_>>]_vars

\* a fitted estimator on which predict can succeed and score can fail
C17_Witness ==
    /\ Fitted
    /\ call.op = "score"
    /\ call.exc = DimensionMismatch
    /\ predict(Self, X, y).exc = "none"

\* sums of squares of a score(X, y) call, from the fitted line
SSRes == RSum(Vector([i \in 1..Len(y) |->
             LET d == RSub(FromInt(y[i]), RowValue(i)) IN RMul(d, d)]))
SSTot == RSum(Vector([i \in 1..Len(y) |->
             LET d == RSub(FromInt(y[i]), Rat(ISum(y), Len(y))) IN RMul(d, d)]))
Exact == \A i \in 1..Len(y) : RowValue(i) = FromInt(y[i])
AllMean == \A i \in 1..Len(y) : RowValue(i) = Rat(ISum(y), Len(y))
ScoreReturned == call.op = "score" /\ call.exc = "none"

\* C18 as stated: score returns 1.0 whenever the predictions equal the
\* targets and 0.0 whenever every prediction equals the mean of the targets.
C18_ScoreOneAndZero ==
    ScoreReturned =>
        /\ Exact => call.ret = FromInt(1)
        /\ AllMean => call.ret = FromInt(0)

\* C18: score(X, y) is the coefficient of determination of the fitted line's
\* predictions: with two samples or more and targets that are not all equal,
\* 1 - SSres / SStot, so 1.0 for predictions equal to the targets and 0.0 for
\* predictions all equal to the targets' mean; with equal targets, 1.0 when
\* they are predicted exactly and 0.0 otherwise; with one sample, NaN.
C18_ScoreIsR2 ==
    ScoreReturned =>
        /\ Len(y) < 2 => call.ret = NaN
        /\ (Len(y) >= 2 /\ SSTot # FromInt(0)) =>
               /\ RMul(call.ret, SSTot) = RSub(SSTot, SSRes)
               /\ Exact => call.ret = FromInt(1)
               /\ AllMean => call.ret = FromInt(0)
        /\ (Len(y) >= 2 /\ SSTot = FromInt(0)) =>
               call.ret = IF Exact THEN FromInt(1) ELSE FromInt(0)

C18_Witness ==
    /\ ScoreReturned
    /\ Len(y) = 2
    /\ SSTot # FromInt(0)
    /\ AllMean
    /\ call.ret = FromInt(0)

\* the sum of squared residuals of the line with integer intercept b and
\* integer coefficients c
SSE(b, c) ==
    ISum(Vector([i \in 1..Len(y) |->
        LET d == y[i] - b - ISum(Vector([j \in 1..Cols(X) |-> X[i][j] * c[j]]))
        IN  d * d]))

\* C19: with alpha = 0 a successful fit is ordinary least squares: the
\* residuals are orthogonal to the column of ones and to every column of X,
\* no line with small integer parameters has a smaller sum of squared
\* residuals, and for X = [[1], [2], [3]], y = [2, 4, 6] the coefficients are
\* [2] and the intercept is 0.
C19_OrdinaryLeastSquares ==
    (FitSucceeded /\ alpha = 0) =>
        /\ \A r \in 1..(Cols(X) + 1) :
              RSum(Vector([i \in 1..Rows(X) |->
                  RMul(FromInt(AugEntry(X, i, r)),
                       RSub(FromInt(y[i]), RowValue(i)))])) = FromInt(0)
        /\ \A b \in (-1)..2 : \A c \in [1..Cols(X) -> (-1)..2] :
              RLeq(SSRes, FromInt(SSE(b, c)))
        /\ (X = ExampleX /\ y = ExampleY) =>
              (coef_ = <<FromInt(2)>> /\ intercept_ = FromInt(0))

C19_Witness ==
    /\ FitSucceeded
    /\ alpha = 0
    /\ X = ExampleX
    /\ y = ExampleY
    /\ coef_ = <<FromInt(2)>>
    /\ intercept_ = FromInt(0)

\* C20: a fit depends on X, y and the current alpha only: it succeeds or fails
\* as the fit of a new estimator with the same alpha does, on success its
\* parameters are that estimator's whatever was fitted before, and a second
\* fit of the same data changes nothing.
C20_FitFromScratch ==
    [][call'.op = "fit" =>
          LET o == FreshFit(alpha, X, y)
          IN  /\ call'.exc = o.exc
              /\ call'.exc = "none" =>
                     (coef_' = o.self.coef_ /\ intercept_' = o.self.intercept_)
              /\ (FitSucceeded /\ call'.exc = "none") =>
                     UNCHANGED <<coef_, intercept_>>]_vars

\* a fitted estimator, last used for something else than fit, whose next fit
\* succeeds with other parameters
C20_Witness ==
    /\ Fitted
    /\ call.op = "load"
    /\ LET o == fit(Self, X, y)
       IN  o.exc = "none" /\ o.self.coef_ # coef_

\* C21: alpha is non-negative in every reachable state, after construction
\* and after any sequence of set_params calls.
C21_AlphaNonNegative == alpha >= 0

\* C22: between operations the intercept and the coefficients are both None or
\* both defined, and a step that changes either is a successful fit after
\* which the two together solve the normal equations of that call's X, y and
\* alpha: they are never the results of two different calls.
C22_NeverPartial ==
    /\ [](Unfitted \/ Fitted)
    /\ [][\/ UNCHANGED <<intercept_, coef_>>
          \/ /\ call'.op = "fit"
             /\ call'.exc = "none"
             /\ Len(coef_') = Cols(X')
             /\ NormalEquations(alpha', <<intercept_'>> \o coef_', X', y')]_vars

\* a fitted estimator whose next fit succeeds and replaces both parameters
C22_Witness ==
    /\ Fitted
    /\ Len(coef_) = 1
    /\ call.op = "load"
    /\ LET o == fit(Self, X, y)
       IN  /\ o.exc = "none"
           /\ Len(o.self.coef_) = 2
           /\ o.self.intercept_ # intercept_

\* the squared Euclidean norm of a vector of rationals
NormSq(c) == RSum(Vector([j \in 1..Len(c) |-> RMul(c[j], c[j])]))

\* C23: for fixed (X, y) and alpha >= 0 the norm of the fitted coefficient
\* vector does not grow when alpha grows: a new estimator with alpha + 1
\* fits the same data, and its coefficient vector is no longer than this one,
\* and shorter unless this one is zero.
C23_Shrinkage ==
    (FitSucceeded /\ alpha >= 0) =>
        LET o == FreshFit(alpha + 1, X, y)
        IN  /\ o.exc = "none"
            /\ RLeq(NormSq(o.self.coef_), NormSq(coef_))
            /\ NormSq(coef_) # FromInt(0) =>
                   NormSq(o.self.coef_) # NormSq(coef_)

\* a fit whose coefficients get strictly shorter under the larger alpha
C23_Witness ==
    /\ FitSucceeded
    /\ alpha = 0
    /\ Cols(X) = 1
    /\ NormSq(FreshFit(1, X, y).self.coef_) # NormSq(coef_)

\* C24 as stated: score returns NaN whenever y is constant.
C24_ConstantTargetsNaN ==
    (ScoreReturned /\ SSTot = FromInt(0)) => call.ret = NaN

\* C24: for a constant y of two samples or more score returns a finite number,
\* 1.0 when the predictions equal the targets and 0.0 when they do not; it
\* returns NaN for a single sample only.
C24_ConstantTargetsFinite ==
    (ScoreReturned /\ SSTot = FromInt(0)) =>
        /\ Len(y) >= 2 => (/\ call.ret # NaN
                           /\ Exact => call.ret = FromInt(1)
                           /\ ~Exact => call.ret = FromInt(0))
        /\ Len(y) = 1 => call.ret = NaN

\* two equal targets, not predicted exactly
C24_Witness ==
    /\ ScoreReturned
    /\ Len(y) = 2
    /\ y[1] = y[2]
    /\ ~Exact
    /\ call.ret = FromInt(0)

\* C25: for alpha > 0 and a y with as many entries as X has rows, more columns
\* than rows and rank-deficient X included, the penalized matrix is
\* invertible and fit succeeds.
C25_PositiveAlphaSolves ==
    (call.op = "fit" /\ alpha > 0 /\ Rows(X) = Len(y)) =>
        LET k == Cols(X) + 1
        IN  /\ Det([r \in 1..k |-> [c \in 1..k |->
                   Gram(X, r, c) + Penalty(alpha, r, c)]]) # 0
            /\ call.exc = "none"
            /\ Fitted

\* one row, two columns
C25_Witness ==
    /\ FitSucceeded
    /\ alpha > 0
    /\ X = <<<<1, 1>>>>
    /\ y = <<1>>
    /\ intercept_ = FromInt(1)

\* the mean of column j of X, and of y
MeanX(j) == Rat(ISum(Vector([i \in 1..Rows(X) |-> X[i][j]])), Rows(X))
MeanY == Rat(ISum(y), Len(y))

\* C27: after every successful fit, whatever alpha, the intercept is
\* mean(y) - sum_j mean(X[:, j]) * coef_[j], and the residuals y - predict(X)
\* on the fitted data sum to zero.
C27_InterceptFromMeans ==
    FitSucceeded =>
        /\ intercept_ =
               RSub(MeanY, RSum(Vector([j \in 1..Cols(X) |->
                                   RMul(MeanX(j), coef_[j])])))
        /\ RSum(Vector([i \in 1..Rows(X) |->
               RSub(FromInt(y[i]), RowValue(i))])) = FromInt(0)

C27_Witness ==
    /\ FitSucceeded
    /\ alpha = 1
    /\ Rows(X) = 2
    /\ intercept_ # MeanY
    /\ intercept_ # FromInt(0)

\* C28: set_params changes alpha at most, and only when alpha is among its
\* keys; the intercept and the coefficients stay, so a predict or a score
\* after it returns the values of the parameters fitted before, whatever
\* alpha has become.
C28_SetParamsFrame ==
    /\ [][call'.op = "set_params" =>
             /\ UNCHANGED <<intercept_, coef_, X, y>>
             /\ "alpha" \notin DOMAIN call'.args => alpha' = alpha]_vars
    /\ [][(call.op = "set_params" /\ call'.op = "predict"
              /\ Fitted /\ Cols(X) = Len(coef_)) =>
             /\ call'.exc = "none"
             /\ \A i \in 1..Rows(X) : call'.ret[i] = RowValue(i)]_vars
    /\ [][(call.op = "set_params" /\ call'.op = "score" /\ call'.exc = "none"
              /\ Len(y) >= 2 /\ SSTot # FromInt(0)) =>
             RMul(call'.ret, SSTot) = RSub(SSTot, SSRes)]_vars

\* set_params has just set an alpha under which a fit of the same arrays
\* would give other coefficients than the ones kept; predict can follow
C28_Witness ==
    /\ call.op = "set_params"
    /\ "alpha" \in DOMAIN call.args
    /\ Fitted
    /\ predict(Self, X, y).exc = "none"
    /\ LET o == FreshFit(alpha, X, y)
       IN  o.exc = "none" /\ o.self.coef_ # coef_

\* what a fit of thread t's arrays alone gives on a new estimator
Alone(t) == FreshFit(alpha, threads.X[t], threads.y[t])
Shared == threads.target = <<1, 1>>
BothDone == threads.pc = <<"done", "done">>

\* C26: with one estimator for each thread, every state of every interleaving
\* shows on each estimator what its own thread has written so far and
\* nothing of the other; with one estimator for both, once both calls have
\* returned the intercept is that of one of the two fits and the coefficients
\* are those of one of the two, not necessarily the same one.
C26_ThreadsAndInstances ==
    /\ ~Shared =>
          \A t \in Threads :
              LET self == Instance(t)
                  pc == threads.pc[t]
              IN  /\ self.intercept_ =
                         IF pc \in {"intercept", "done"}
                         THEN Alone(t).self.intercept_ ELSE None
                  /\ self.coef_ =
                         IF pc = "done" THEN Alone(t).self.coef_ ELSE None
    /\ (Shared /\ BothDone) =>
          /\ \E t \in Threads : intercept_ = Alone(t).self.intercept_
          /\ \E t \in Threads : coef_ = Alone(t).self.coef_

\* both calls on one estimator have returned: the intercept is the first
\* thread's, the coefficients are the second's, and neither fit alone gives
\* this pair
C26_Witness ==
    /\ Shared
    /\ BothDone
    /\ intercept_ = Alone(1).self.intercept_
    /\ coef_ = Alone(2).self.coef_
    /\ intercept_ # Alone(2).self.intercept_
    /\ coef_ # Alone(1).self.coef_

\* the epochs whose validation accuracy no epoch exceeds
BestEpochs ==
    {e \in 1..Len(trainer.val_accs) :
        \A f \in 1..Len(trainer.val_accs) :
            RLeq(trainer.val_accs[f], trainer.val_accs[e])}

\* the smallest element of a non-empty set of epochs
Earliest(S) == CHOOSE e \in S : \A f \in S : e <= f

\* C29: when train returns, the model holds the weights of the end of the
\* epoch with the highest validation accuracy, the earliest of them on a tie;
\* it holds the weights it had on entry when no epoch's validation accuracy
\* is above 0 or when num_epochs is 0.
C29_BestEpochWeights ==
    trainer.pc = "returned" =>
        /\ Len(trainer.val_accs) = trainer.num_epochs
        /\ trainer.model =
               IF \E e \in 1..trainer.num_epochs :
                      trainer.val_accs[e] # FromInt(0)
               THEN Earliest(BestEpochs)
               ELSE 0

\* three epochs, the second and the third tied for the best accuracy
C29_Witness ==
    /\ trainer.pc = "returned"
    /\ trainer.num_epochs = 3
    /\ trainer.val_accs = <<FromInt(50), FromInt(100), FromInt(100)>>
    /\ trainer.model = 2

=============================================================================
